---- MODULE Spec2Model ----
(***************************************************************************)
(* The installer / uninstaller of the davenov-cc collection (install.js,   *)
(* latest revision) as a state machine over a small filesystem.            *)
(*                                                                         *)
(* A filesystem tree is a function from relative paths (sequences of       *)
(* names below its root) to a node: ABSENT, DIRNODE, or the byte content   *)
(* of a regular file.  `src` is the tree below SOURCE_DIR, `fs` the tree   *)
(* below CLAUDE_DIR (the path <<>> is CLAUDE_DIR itself).                  *)
(***************************************************************************)
EXTENDS Integers, Sequences, FiniteSets, TLC

VARIABLES
    src,            \* tree below SOURCE_DIR
    fs,             \* tree below CLAUDE_DIR
    UNINSTALL,      \* args.includes("--uninstall")
    AUTO_OVERRIDE,  \* args.includes("--auto-override"), evaluated at load time
    args,           \* the args array (a set of flags); main() may push to it
    isTTY,          \* process.stdin.isTTY
    pc,             \* position of the run
    rlOpen,         \* the readline interface exists and is not closed
    available,      \* install: groups whose source directory exists
    items,          \* the detector's list (installed / itemsToOverwrite)
    answer,         \* the line read at the prompt, "none" before one is read
    idx,            \* index of the next loop iteration (copy or remove loop)
    removed,        \* uninstall: the removed counter
    out,            \* what was printed to stdout, in order
    errOut,         \* what was printed to stderr (the error code) or "none"
    err,            \* the pending exception, or "none"
    exitCode,       \* exit status of the process, -1 while it runs
    outcome,        \* how the run ended
    before,         \* fs when the current run started
    wrote,          \* dest paths written (mkdir / copyFile) by the current run, in order
    runNo,          \* number of the current run (1-based)
    history,        \* records of the runs that ended before the current one
    callTarget,     \* removeRecursive called on its own: the argument
    ret,            \* removeRecursive called on its own: the value returned
    cliArgs,        \* bin/cli.js: process.argv.slice(2) of the wrapper
    cliCode         \* bin/cli.js: exit status of the wrapper, -1 while it runs

vars == <<src, fs, UNINSTALL, AUTO_OVERRIDE, args, isTTY, pc, rlOpen, available,
          items, answer, idx, removed, out, errOut, err, exitCode, outcome, before,
          wrote, runNo, history, callTarget, ret, cliArgs, cliCode>>

(***************************************************************************)
(* Bounds of the model                                                     *)
(***************************************************************************)
\* at most this many consecutive runs of the tool in SpecRerun
MaxRuns == 2
\* a fault (EACCES, EIO, ENOSPC) can be injected into one of the first
\* MaxFaultAt mutating fs calls of a copy step; 0 means no fault
MaxFaultAt == 3

(***************************************************************************)
(* Program constants                                                       *)
(***************************************************************************)
CUSTOMIZATION_DIRS == <<"commands", "skills">>

INSTALLED_ITEMS ==
    [ commands |-> <<"davenov:cc:interview.md", "davenov:cc:rule.md",
                     "davenov:cc:update.md">>,
      skills   |-> <<"davenov:cc:expert-convex-nextjs",
                     "davenov:cc:expert-evolu-nextjs",
                     "davenov:cc:expert-nextjs-16",
                     "davenov:cc:expert-build-nostr">> ]

\* Object.entries(INSTALLED_ITEMS) iterates the keys in insertion order
INSTALLED_KEYS == <<"commands", "skills">>

(***************************************************************************)
(* The filesystem universe of the model                                    *)
(***************************************************************************)
ABSENT  == "absent"
DIRNODE == "dir"
\* file contents: PKG is what the package ships, OWN is operator-authored
PKG == "pkg-bytes"
OWN == "operator-bytes"

CmdUpdate == "davenov:cc:update.md"     \* in the manifest, shipped in commands/
CmdHelp   == "davenov:cc:help.md"       \* shipped in commands/, not in the manifest
SkillDir  == "davenov:cc:expert-nextjs-16"  \* in the manifest, shipped in skills/
SkillMd   == "SKILL.md"                 \* shipped inside the skill directory
NotesMd   == "notes.md"                 \* never shipped: an operator's file

\* the order in which a directory listing returns names (or its reverse)
NameOrder == <<"SKILL.md", "commands", "davenov:cc:expert-nextjs-16",
               "davenov:cc:help.md", "davenov:cc:update.md", "notes.md", "skills">>

Root == << >>

DestPaths ==
    { Root, <<"commands">>, <<"commands", CmdUpdate>>, <<"commands", CmdHelp>>,
      <<"skills">>, <<"skills", SkillDir>>, <<"skills", SkillDir, SkillMd>>,
      <<"skills", SkillDir, NotesMd>> }

SrcPaths == DestPaths \ { <<"skills", SkillDir, NotesMd>> }

Parent(p) == SubSeq(p, 1, Len(p) - 1)

IsPrefix(p, q) == Len(p) <= Len(q) /\ SubSeq(q, 1, Len(p)) = p

\* node of path p in tree f; a path outside the universe never exists
Node(f, p) == IF p \in DOMAIN f THEN f[p] ELSE ABSENT

IsFile(n) == n \notin {ABSENT, DIRNODE}

\* every existing node other than the root sits in a directory
WellFormed(f) ==
    \A p \in DOMAIN f : (p # Root /\ f[p] # ABSENT) => f[Parent(p)] = DIRNODE

DestAllowed(p) ==
    CASE p = Root                          -> {ABSENT, DIRNODE}
      [] Len(p) = 1                        -> {ABSENT, DIRNODE}
      [] p = <<"commands", CmdUpdate>>     -> {ABSENT, PKG, OWN, DIRNODE}
      [] p = <<"commands", CmdHelp>>       -> {ABSENT, PKG, OWN}
      [] p = <<"skills", SkillDir>>        -> {ABSENT, DIRNODE, OWN}
      [] p = <<"skills", SkillDir, SkillMd>> -> {ABSENT, PKG, OWN}
      [] OTHER                             -> {ABSENT, OWN}

SrcAllowed(p) ==
    CASE p = Root                          -> {DIRNODE}
      [] Len(p) = 1                        -> {ABSENT, DIRNODE}
      [] p = <<"skills", SkillDir>>        -> {ABSENT, DIRNODE}
      [] OTHER                             -> {ABSENT, PKG}

DestTrees == { f \in [DestPaths -> {ABSENT, DIRNODE, PKG, OWN}] :
                 /\ \A p \in DestPaths : f[p] \in DestAllowed(p)
                 /\ WellFormed(f) }

SrcTrees == { f \in [SrcPaths -> {ABSENT, DIRNODE, PKG}] :
                 /\ \A p \in SrcPaths : f[p] \in SrcAllowed(p)
                 /\ WellFormed(f) }


(***************************************************************************)
(* Node's fs primitives on a tree.  A mutating primitive returns           *)
(* [fs, err]: the new tree and "none", or the old tree and an error code.  *)
(***************************************************************************)
Prefixes(p) == { SubSeq(p, 1, i) : i \in 0..Len(p) }

Descendants(f, p) == { q \in DOMAIN f : IsPrefix(p, q) /\ q # p /\ f[q] # ABSENT }

\* fs.existsSync(p)
existsSync(f, p) == Node(f, p) # ABSENT

\* fs.readdirSync(p): the names of p's children, in listing order
readdirSync(f, p, rev) ==
    LET has(n) == Node(f, Append(p, n)) # ABSENT
        fwd == SelectSeq(NameOrder, has)
    IN  IF rev THEN [i \in 1..Len(fwd) |-> fwd[Len(fwd) + 1 - i]] ELSE fwd

\* fs.mkdirSync(p, { recursive: true })
mkdirSync(f, p) ==
    IF \E q \in Prefixes(p) : IsFile(Node(f, q))
    THEN [fs |-> f, err |-> "ENOTDIR"]
    ELSE [fs |-> [q \in DOMAIN f |-> IF q \in Prefixes(p) THEN DIRNODE ELSE f[q]],
          err |-> "none"]

\* a copy that replaces a directory at the destination by the file
copyFileSyncForce(f, content, p) ==
    CASE Node(f, Parent(p)) = ABSENT   -> [fs |-> f, err |-> "ENOENT"]
      [] Node(f, Parent(p)) # DIRNODE  -> [fs |-> f, err |-> "ENOTDIR"]
      [] OTHER                         -> [fs |-> [f EXCEPT ![p] = content],
                                           err |-> "none"]

\* a copy that refuses to overwrite (COPYFILE_EXCL)
copyFileSyncExcl(f, content, p) ==
    CASE Node(f, Parent(p)) = ABSENT   -> [fs |-> f, err |-> "ENOENT"]
      [] Node(f, Parent(p)) # DIRNODE  -> [fs |-> f, err |-> "ENOTDIR"]
      [] Node(f, p) # ABSENT           -> [fs |-> f, err |-> "EEXIST"]
      [] OTHER                         -> [fs |-> [f EXCEPT ![p] = content],
                                           err |-> "none"]

\* a copy that silently keeps an existing destination file
copyFileSyncKeep(f, content, p) ==
    CASE Node(f, Parent(p)) = ABSENT   -> [fs |-> f, err |-> "ENOENT"]
      [] Node(f, Parent(p)) # DIRNODE  -> [fs |-> f, err |-> "ENOTDIR"]
      [] Node(f, p) # ABSENT           -> [fs |-> f, err |-> "none"]
      [] OTHER                         -> [fs |-> [f EXCEPT ![p] = content],
                                           err |-> "none"]

\* fs.copyFileSync(src, dest) of a file with the given content
copyFileSync(f, content, p) ==
    CASE Node(f, Parent(p)) = ABSENT   -> [fs |-> f, err |-> "ENOENT"]
      [] Node(f, Parent(p)) # DIRNODE  -> [fs |-> f, err |-> "ENOTDIR"]
      [] Node(f, p) = DIRNODE          -> [fs |-> f, err |-> "EISDIR"]
      [] OTHER                         -> [fs |-> [f EXCEPT ![p] = content],
                                           err |-> "none"]

\* an unlink that leaves the file
unlinkSyncNoop(f, p) == f

\* fs.unlinkSync(p) of an existing regular file
unlinkSync(f, p) == [f EXCEPT ![p] = ABSENT]

\* an rm that empties the whole tree
rmSyncEverything(f, p) == [q \in DOMAIN f |-> ABSENT]

\* an rm that takes the directory and leaves what was in it
rmSyncShallow(f, p) == [f EXCEPT ![p] = ABSENT]

\* fs.rmSync(p, { recursive: true, force: true }) of an existing directory
rmSync(f, p) ==
    [q \in DOMAIN f |-> IF IsPrefix(p, q) THEN ABSENT ELSE f[q]]

(***************************************************************************)
(* copyRecursive.  The copy state st is [fs, err, n, wrote]: the tree, the *)
(* exception thrown so far ("none" if none), the number of mutating fs     *)
(* calls made, and the paths written in order.  The k-th mutating call     *)
(* fails with EACCES and no effect (k = 0: no injected fault).             *)
(***************************************************************************)
\* one mutating call whose fault-free result is res, writing path p
Mutate(st, k, res, p) ==
    IF st.n + 1 = k
    THEN [st EXCEPT !.n = @ + 1, !.err = "EACCES"]
    ELSE IF res.err # "none"
    THEN [st EXCEPT !.n = @ + 1, !.err = res.err]
    ELSE [fs |-> res.fs, err |-> "none", n |-> st.n + 1,
          wrote |-> Append(st.wrote, p)]

\* a wipe-and-replace copier: an existing destination directory is emptied first
EnsureDirWipe(st, dp, k) ==
    Mutate(st, k, mkdirSync(rmSync(st.fs, dp), dp), dp)

\* copyRecursive, directory case: if (!fs.existsSync(dest)) fs.mkdirSync(dest, ...)
EnsureDir(st, dp, k) ==
    IF ~existsSync(st.fs, dp)
    THEN Mutate(st, k, mkdirSync(st.fs, dp), dp)
    ELSE st

RECURSIVE copyRecursive(_, _, _, _, _, _)
RECURSIVE CopyEntries(_, _, _, _, _, _, _)

\* the for loop of copyRecursive over the listed entries, from the first on
CopyEntries(S, sp, dp, entries, st, k, rev) ==
    IF entries = << >> \/ st.err # "none"
    THEN st
    ELSE CopyEntries(S, sp, dp, Tail(entries),
                     copyRecursive(S, Append(sp, Head(entries)),
                                   Append(dp, Head(entries)), st, k, rev),
                     k, rev)

copyRecursive(S, sp, dp, st, k, rev) ==
    IF st.err # "none" THEN st
    ELSE IF Node(S, sp) = ABSENT
    THEN [st EXCEPT !.err = "ENOENT"]                 \* fs.statSync(src) throws
    ELSE IF Node(S, sp) = DIRNODE
    THEN CopyEntries(S, sp, dp, readdirSync(S, sp, rev), EnsureDir(st, dp, k),
                     k, rev)
    ELSE Mutate(st, k, copyFileSync(st.fs, Node(S, sp), dp), dp)

\* a transactional copy: on failure the group's writes are rolled back
CopyIntoAtomic(S, f, dir, k, rev) ==
    LET r == copyRecursive(S, <<dir>>, <<dir>>,
                           [fs |-> f, err |-> "none", n |-> 0, wrote |-> << >>],
                           k, rev)
    IN  IF r.err # "none" THEN [r EXCEPT !.fs = f] ELSE r

\* install's call copyRecursive(srcPath, destPath) for the group dir
CopyInto(S, f, dir, k, rev) ==
    copyRecursive(S, <<dir>>, <<dir>>,
                  [fs |-> f, err |-> "none", n |-> 0, wrote |-> << >>], k, rev)

RECURSIVE countFiles(_, _)
countFiles(S, dir) ==
    IF ~existsSync(S, dir) THEN 0
    ELSE LET RECURSIVE sum(_)
             sum(entries) ==
                 IF entries = << >> THEN 0
                 ELSE (IF Node(S, Append(dir, Head(entries))) = DIRNODE
                       THEN countFiles(S, Append(dir, Head(entries)))
                       ELSE 1) + sum(Tail(entries))
         IN  sum(readdirSync(S, dir, FALSE))

(***************************************************************************)
(* removeRecursive(target): [fs, err, ret].  With fault set, the unlink or *)
(* rm call throws EACCES; a failing recursive rm may already have removed  *)
(* the descendants in `gone` (the target itself stays).                    *)
(***************************************************************************)
\* a remover that swallows the error of a failing unlink or rm
removeRecursiveSwallow(f, target, fault, gone) ==
    IF ~existsSync(f, target)
    THEN [fs |-> f, err |-> "none", ret |-> FALSE]
    ELSE IF fault
    THEN [fs |-> [q \in DOMAIN f |-> IF q \in gone THEN ABSENT ELSE f[q]],
          err |-> "none", ret |-> FALSE]
    ELSE IF Node(f, target) = DIRNODE
    THEN [fs |-> rmSync(f, target), err |-> "none", ret |-> TRUE]
    ELSE [fs |-> unlinkSync(f, target), err |-> "none", ret |-> TRUE]

\* a remover that removes but does not say so
removeRecursiveNoReturn(f, target, fault, gone) ==
    IF ~existsSync(f, target)
    THEN [fs |-> f, err |-> "none", ret |-> FALSE]
    ELSE IF fault
    THEN [fs |-> f, err |-> "EACCES", ret |-> FALSE]
    ELSE IF Node(f, target) = DIRNODE
    THEN [fs |-> rmSync(f, target), err |-> "none", ret |-> FALSE]
    ELSE [fs |-> unlinkSync(f, target), err |-> "none", ret |-> FALSE]

removeRecursive(f, target, fault, gone) ==
    IF ~existsSync(f, target)
    THEN [fs |-> f, err |-> "none", ret |-> FALSE]
    ELSE IF Node(f, target) = DIRNODE
    THEN IF fault
         THEN [fs |-> [q \in DOMAIN f |-> IF q \in gone THEN ABSENT ELSE f[q]],
               err |-> "EACCES", ret |-> FALSE]
         ELSE [fs |-> rmSync(f, target), err |-> "none", ret |-> TRUE]
    ELSE IF fault
         THEN [fs |-> f, err |-> "EACCES", ret |-> FALSE]
         ELSE [fs |-> unlinkSync(f, target), err |-> "none", ret |-> TRUE]

(***************************************************************************)
(* getItemsToOverwrite(): the manifest entries that exist below CLAUDE_DIR *)
(***************************************************************************)
\* the manifest flattened in iteration order: <<dir, item>> pairs
RECURSIVE ManifestFrom(_)
ManifestFrom(keys) ==
    IF keys = << >> THEN << >>
    ELSE [i \in 1..Len(INSTALLED_ITEMS[Head(keys)]) |->
             <<Head(keys), INSTALLED_ITEMS[Head(keys)][i]>>]
         \o ManifestFrom(Tail(keys))

Manifest == ManifestFrom(INSTALLED_KEYS)

\* the item name dropped from the join: the path of the whole group directory
FullPathGroupOnly(e) == <<e[1]>>

\* path.join(CLAUDE_DIR, dir, item)
FullPath(e) == <<e[1], e[2]>>

\* a scan that takes every manifest entry as present
ItemExistsAlways(f, e) == TRUE

\* fs.existsSync(fullPath)
ItemExists(f, e) == existsSync(f, FullPath(e))

\* a detector that pushes to the front of its list
getItemsToOverwriteReversed(f) ==
    LET keep(e) == existsSync(f, FullPath(e))
        fwd == SelectSeq(Manifest, keep)
    IN  [i \in 1..Len(fwd) |-> fwd[Len(fwd) + 1 - i]]

getItemsToOverwrite(f) ==
    LET keep(e) == ItemExists(f, e) IN SelectSeq(Manifest, keep)

\* a confirmation that takes every line as approval
DeclinesNever(line) == FALSE

\* a confirmation that only takes a literal "n" as a decline
DeclinesOnlyN(line) == line = "n"

\* a comparison that keeps the case of the line
toLowerCaseNoop(s) == s

\* answer.toLowerCase() !== "y"
toLowerCase(s) == IF s = "Y" THEN "y" ELSE IF s = "YES" THEN "yes" ELSE s

Declines(line) == toLowerCase(line) # "y"

\* the lines the operator may type at the prompt
Answers == {"y", "Y", "n", "", "yes", " y"}

(***************************************************************************)
(* The run                                                                 *)
(***************************************************************************)
Flags == {"--auto-override", "--uninstall"}

\* a process started with the given argv on the current filesystem
StartRun(argv) ==
    /\ args' = argv
    /\ AUTO_OVERRIDE' = ("--auto-override" \in argv)
    /\ UNINSTALL' = ("--uninstall" \in argv)
    /\ pc' = "main"
    /\ rlOpen' = FALSE
    /\ available' = << >>
    /\ items' = << >>
    /\ answer' = "none"
    /\ idx' = 0
    /\ removed' = 0
    /\ out' = << >>
    /\ errOut' = "none"
    /\ err' = "none"
    /\ exitCode' = -1
    /\ outcome' = "running"
    /\ wrote' = << >>

Init ==
    /\ src \in SrcTrees
    /\ fs \in DestTrees
    /\ args \in SUBSET Flags
    /\ AUTO_OVERRIDE = ("--auto-override" \in args)
    /\ UNINSTALL = ("--uninstall" \in args)
    /\ isTTY \in BOOLEAN
    /\ pc = "main"
    /\ rlOpen = FALSE
    /\ available = << >>
    /\ items = << >>
    /\ answer = "none"
    /\ idx = 0
    /\ removed = 0
    /\ out = << >>
    /\ errOut = "none"
    /\ err = "none"
    /\ exitCode = -1
    /\ outcome = "running"
    /\ before = fs
    /\ wrote = << >>
    /\ runNo = 1
    /\ history = << >>
    /\ callTarget = Root
    /\ ret = FALSE
    /\ cliArgs = {}
    /\ cliCode = -1

\* process.exit(code)
Exit(code, how) ==
    /\ pc' = "exited"
    /\ exitCode' = code
    /\ outcome' = how

\* console.log of the detector's list, one line per entry
Listing(list) == [i \in 1..Len(list) |-> <<"item", list[i][1], list[i][2]>>]

\* main(): create the readline interface and dispatch on UNINSTALL
Main ==
    /\ pc = "main"
    /\ rlOpen' = TRUE
    /\ IF UNINSTALL
       THEN /\ pc' = "uninstall"
            /\ args' = args
       ELSE /\ pc' = "install"
            /\ args' = IF ~isTTY /\ ~AUTO_OVERRIDE
                       THEN args \cup {"--auto-override"}
                       ELSE args
    /\ UNCHANGED <<cliArgs, cliCode, callTarget, ret, src, answer, fs, UNINSTALL, AUTO_OVERRIDE, isTTY, available, items, idx,
                   removed, out, errOut, err, exitCode, outcome, before, wrote,
                   runNo, history>>

\* every configured group, whether or not the package ships it
AvailableUnfiltered(S) == CUSTOMIZATION_DIRS

\* install: CUSTOMIZATION_DIRS.filter(dir => fs.existsSync(path.join(SOURCE_DIR, dir)))
Available(S) == SelectSeq(CUSTOMIZATION_DIRS, LAMBDA d : existsSync(S, <<d>>))

\* install: if (AUTO_OVERRIDE) ... else prompt
\* an install that never waits for the operator
InstallSkipsPromptAlways == TRUE

InstallSkipsPrompt == AUTO_OVERRIDE

\* an uninstall that asks whatever the flag says
UninstallAsksAlways == TRUE

\* uninstall: if (!AUTO_OVERRIDE) prompt
UninstallAsks == ~AUTO_OVERRIDE

\* install(rl) up to the confirmation decision
Install ==
    /\ pc = "install"
    /\ LET avail == Available(src)
           box == [i \in 1..Len(avail) |->
                      <<"box", avail[i], countFiles(src, <<avail[i]>>)>>]
           list == getItemsToOverwrite(fs)
       IN  /\ available' = avail
           /\ IF avail = << >>
              THEN /\ out' = Append(out, <<"nothing to install">>)
                   /\ items' = items
                   /\ Exit(0, "nothing")
              ELSE /\ items' = list
                   /\ exitCode' = exitCode
                   /\ outcome' = outcome
                   /\ IF list = << >>
                      THEN /\ out' = out \o box
                           /\ pc' = "ensureRoot"
                      ELSE IF InstallSkipsPrompt
                      THEN /\ out' = out \o box \o <<<<"will overwrite">>>>
                                         \o Listing(list) \o <<<<"auto">>>>
                           /\ pc' = "ensureRoot"
                      ELSE /\ out' = out \o box \o <<<<"will overwrite">>>>
                                         \o Listing(list) \o <<<<"prompt">>>>
                           /\ pc' = "installPrompt"
    /\ UNCHANGED <<cliArgs, cliCode, callTarget, ret, src, answer, fs, UNINSTALL, AUTO_OVERRIDE, args, isTTY, rlOpen, idx,
                   removed, errOut, err, before, wrote, runNo, history>>

\* the operator's line arrives at install's prompt
InstallAnswer(line) ==
    /\ pc = "installPrompt"
    /\ answer' = line
    /\ IF Declines(line)
       THEN /\ out' = Append(out, <<"cancelled">>)
            /\ rlOpen' = FALSE
            /\ Exit(0, "cancelled")
       ELSE /\ out' = out
            /\ rlOpen' = rlOpen
            /\ pc' = "ensureRoot"
            /\ UNCHANGED <<exitCode, outcome>>
    /\ UNCHANGED <<cliArgs, cliCode, callTarget, ret, src, fs, UNINSTALL, AUTO_OVERRIDE, args, isTTY, available, items,
                   idx, removed, errOut, err, before, wrote, runNo, history>>

\* install: ensure CLAUDE_DIR exists, then announce the copy loop
EnsureRoot(fault) ==
    /\ pc = "ensureRoot"
    /\ LET st0 == [fs |-> fs, err |-> "none", n |-> 0, wrote |-> << >>]
           st == IF ~existsSync(fs, Root)
                 THEN Mutate(st0, IF fault THEN 1 ELSE 0, mkdirSync(fs, Root), Root)
                 ELSE st0
       IN  /\ fs' = st.fs
           /\ wrote' = wrote \o st.wrote
           /\ err' = st.err
           /\ IF st.err # "none"
              THEN /\ pc' = "finally"
                   /\ out' = out
                   /\ idx' = idx
              ELSE /\ pc' = "copy"
                   /\ out' = Append(out, <<"installing">>)
                   /\ idx' = 1
    /\ UNCHANGED <<cliArgs, cliCode, callTarget, ret, src, answer, UNINSTALL, AUTO_OVERRIDE, args, isTTY, rlOpen, available,
                   items, removed, errOut, exitCode, outcome, before, runNo,
                   history>>

\* one iteration of install's copy loop; after the last, the closing message
CopyGroup(k, rev) ==
    /\ pc = "copy"
    /\ idx <= Len(available)
    /\ LET dir == available[idx]
           st == CopyInto(src, fs, dir, k, rev)
           marked == Append(out, <<"mark", dir>>)
       IN  /\ fs' = st.fs
           /\ wrote' = wrote \o st.wrote
           /\ err' = st.err
           /\ IF st.err # "none"
              THEN /\ out' = marked
                   /\ pc' = "finally"
                   /\ idx' = idx
                   /\ outcome' = outcome
              ELSE IF idx = Len(available)
              THEN /\ out' = Append(marked, <<"all set">>)
                   /\ pc' = "finally"
                   /\ idx' = idx + 1
                   /\ outcome' = "completed"
              ELSE /\ out' = marked
                   /\ pc' = "copy"
                   /\ idx' = idx + 1
                   /\ outcome' = outcome
    /\ UNCHANGED <<cliArgs, cliCode, callTarget, ret, src, answer, UNINSTALL, AUTO_OVERRIDE, args, isTTY, rlOpen, available,
                   items, removed, errOut, exitCode, before, runNo, history>>

\* uninstall(rl) up to the confirmation decision
Uninstall ==
    /\ pc = "uninstall"
    /\ LET installed == getItemsToOverwrite(fs)
       IN  /\ items' = installed
           /\ IF installed = << >>
              THEN /\ out' = Append(out, <<"already clean">>)
                   /\ pc' = "finally"
                   /\ outcome' = "nothing"
                   /\ idx' = idx
              ELSE IF UninstallAsks
              THEN /\ out' = out \o <<<<"found">>>> \o Listing(installed)
                                 \o <<<<"prompt">>>>
                   /\ pc' = "uninstallPrompt"
                   /\ outcome' = outcome
                   /\ idx' = idx
              ELSE /\ out' = out \o <<<<"found">>>> \o Listing(installed)
                                 \o <<<<"auto">>, <<"removing">>>>
                   /\ pc' = "remove"
                   /\ outcome' = outcome
                   /\ idx' = 1
    /\ UNCHANGED <<cliArgs, cliCode, callTarget, ret, src, answer, fs, UNINSTALL, AUTO_OVERRIDE, args, isTTY, rlOpen, available,
                   removed, errOut, err, exitCode, before, wrote, runNo, history>>

\* the operator's line arrives at uninstall's prompt
UninstallAnswer(line) ==
    /\ pc = "uninstallPrompt"
    /\ answer' = line
    /\ IF Declines(line)
       THEN /\ out' = Append(out, <<"keeping">>)
            /\ pc' = "finally"
            /\ outcome' = "cancelled"
            /\ idx' = idx
       ELSE /\ out' = Append(out, <<"removing">>)
            /\ pc' = "remove"
            /\ outcome' = outcome
            /\ idx' = 1
    /\ UNCHANGED <<cliArgs, cliCode, callTarget, ret, src, fs, UNINSTALL, AUTO_OVERRIDE, args, isTTY, rlOpen, available,
                   items, removed, errOut, err, exitCode, before, wrote, runNo,
                   history>>

\* one iteration of uninstall's removal loop; after the last, the report
RemoveEntry(fault, gone) ==
    /\ pc = "remove"
    /\ idx <= Len(items)
    /\ LET e == items[idx]
           r == removeRecursive(fs, FullPath(e), fault, gone)
           marked == IF r.ret THEN Append(out, <<"mark", e[1], e[2]>>) ELSE out
           count == IF r.ret THEN removed + 1 ELSE removed
       IN  /\ fs' = r.fs
           /\ err' = r.err
           /\ removed' = count
           /\ IF r.err # "none"
              THEN /\ out' = out
                   /\ pc' = "finally"
                   /\ idx' = idx
                   /\ outcome' = outcome
              ELSE IF idx = Len(items)
              THEN /\ out' = Append(marked, <<"done", count>>)
                   /\ pc' = "finally"
                   /\ idx' = idx + 1
                   /\ outcome' = "completed"
              ELSE /\ out' = marked
                   /\ pc' = "remove"
                   /\ idx' = idx + 1
                   /\ outcome' = outcome
    /\ UNCHANGED <<cliArgs, cliCode, callTarget, ret, src, answer, UNINSTALL, AUTO_OVERRIDE, args, isTTY, rlOpen, available,
                   items, errOut, exitCode, before, wrote, runNo, history>>

\* a catch handler that reports the error but ends the process normally
CatchExitZero ==
    /\ errOut' = err
    /\ Exit(0, "failed")

\* main().catch: console.error("Error:", err.message); process.exit(1)
Catch ==
    /\ errOut' = err
    /\ Exit(1, "failed")

\* a finally block that forgets rl.close()
FinallyLeavesOpen ==
    /\ pc = "finally"
    /\ rlOpen' = rlOpen
    /\ IF err # "none"
       THEN Catch
       ELSE /\ errOut' = errOut
            /\ Exit(0, outcome)
    /\ UNCHANGED <<cliArgs, cliCode, callTarget, ret, src, answer, fs, UNINSTALL, AUTO_OVERRIDE, args,
                   isTTY, available, items, idx, removed, out, err, before, wrote,
                   runNo, history>>

\* main's finally { rl.close() }, then main().catch or the normal end
Finally ==
    /\ pc = "finally"
    /\ rlOpen' = FALSE
    /\ IF err # "none"
       THEN Catch
       ELSE /\ errOut' = errOut
            /\ Exit(0, outcome)
    /\ UNCHANGED <<cliArgs, cliCode, callTarget, ret, src, answer, fs, UNINSTALL, AUTO_OVERRIDE, args, isTTY, available, items,
                   idx, removed, out, err, before, wrote, runNo, history>>

\* the input stream ends while a question is pending: readline closes, the
\* question's callback is never called, and the process ends with nothing
\* left to wait for
PromptEnds ==
    /\ pc \in {"installPrompt", "uninstallPrompt"}
    /\ rlOpen' = FALSE
    /\ Exit(0, "abandoned")
    /\ UNCHANGED <<cliArgs, cliCode, callTarget, ret, src, answer, fs, UNINSTALL, AUTO_OVERRIDE, args, isTTY, available, items,
                   idx, removed, out, errOut, err, before, wrote, runNo, history>>

\* the record of the run that just ended
RunRecord ==
    [ uninstall |-> UNINSTALL, auto |-> AUTO_OVERRIDE, before |-> before,
      after |-> fs, exitCode |-> exitCode, outcome |-> outcome ]

\* after a completed run the operator starts the tool again, auto-confirmed
NextRun(argv) ==
    /\ pc = "exited"
    /\ outcome = "completed"
    /\ runNo < MaxRuns
    /\ history' = Append(history, RunRecord)
    /\ runNo' = runNo + 1
    /\ before' = fs
    /\ StartRun(argv)
    /\ UNCHANGED <<cliArgs, cliCode, callTarget, ret, src, fs, isTTY>>

\* the steps of a run that can happen whatever the flags are
Step ==
    \/ Main
    \/ Install
    \/ \E fault \in BOOLEAN : EnsureRoot(fault)
    \/ \E k \in 0..MaxFaultAt, rev \in BOOLEAN : CopyGroup(k, rev)
    \/ Uninstall
    \/ \E fault \in BOOLEAN :
          \E gone \in (IF fault /\ pc = "remove" /\ idx <= Len(items)
                       THEN SUBSET Descendants(fs, FullPath(items[idx]))
                       ELSE {{}}) : RemoveEntry(fault, gone)
    \/ Finally

\* the steps at the confirmation prompt (reached only without AUTO_OVERRIDE)
PromptStep ==
    \/ \E line \in Answers : InstallAnswer(line)
    \/ \E line \in Answers : UninstallAnswer(line)
    \/ PromptEnds

Next == Step \/ PromptStep

Spec == Init /\ [][Next]_vars

\* The packages taken here ship each group whole or not at all.
WholeSrcTrees ==
    { t \in SrcTrees :
        \A p \in SrcPaths :
           Len(p) >= 2 => (t[p] # ABSENT <=> t[Parent(p)] = DIRNODE) }

\* a wrapper that forwards its arguments as they are
scriptArgsForward(argv) == argv

\* bin/cli.js: const scriptArgs = isUninstall ? args : ['--auto-override', ...args]
scriptArgs(argv) ==
    IF "--uninstall" \in argv THEN argv ELSE {"--auto-override"} \cup argv

\* the wrapper is started with any of the flags, on any destination
InitCli ==
    /\ src \in WholeSrcTrees
    /\ fs \in DestTrees
    /\ cliArgs \in SUBSET Flags
    /\ cliCode = -1
    /\ args = {}
    /\ AUTO_OVERRIDE = FALSE
    /\ UNINSTALL = FALSE
    /\ isTTY = TRUE
    /\ pc = "cli"
    /\ rlOpen = FALSE
    /\ available = << >>
    /\ items = << >>
    /\ answer = "none"
    /\ idx = 0
    /\ removed = 0
    /\ out = << >>
    /\ errOut = "none"
    /\ err = "none"
    /\ exitCode = -1
    /\ outcome = "running"
    /\ before = fs
    /\ wrote = << >>
    /\ runNo = 1
    /\ history = << >>
    /\ callTarget = Root
    /\ ret = FALSE

\* spawn(process.execPath, [installScript, ...scriptArgs], { stdio: 'inherit' })
Spawn ==
    /\ pc = "cli"
    /\ StartRun(scriptArgs(cliArgs))
    /\ UNCHANGED <<cliArgs, cliCode, callTarget, ret, src, fs, isTTY, before, runNo,
                   history>>

\* child.on('close', (code) => process.exit(code))
CliClose ==
    /\ pc = "exited"
    /\ cliCode' = exitCode
    /\ pc' = "cliExited"
    /\ UNCHANGED <<cliArgs, callTarget, ret, src, fs, UNINSTALL, AUTO_OVERRIDE, args,
                   isTTY, rlOpen, available, items, answer, idx, removed, out,
                   errOut, err, exitCode, outcome, before, wrote, runNo, history>>

\* The child's install never reaches its prompt, so InstallAnswer is not a step.
NextCli ==
    \/ Spawn
    \/ Step
    \/ \E line \in Answers : UninstallAnswer(line)
    \/ PromptEnds
    \/ CliClose

SpecCli == InitCli /\ [][NextCli]_vars

\* One run under fairness: the process keeps executing its own steps, and
\* the input stream at a pending question delivers a line or ends.
InitLive == Init /\ src \in WholeSrcTrees /\ isTTY

SpecLive == InitLive /\ [][Next]_vars /\ WF_vars(Step) /\ WF_vars(PromptStep)

\* Auto-confirmed runs in a row: an install, then an install or an uninstall.
\* With AUTO_OVERRIDE set no run reaches a prompt, so PromptStep is left out.
InitRerun == Init /\ args = {"--auto-override"}

NextRerun ==
    \/ Step
    \/ \E argv \in {{"--auto-override"}, {"--auto-override", "--uninstall"}} :
          NextRun(argv)

SpecRerun == InitRerun /\ [][NextRerun]_vars

\* Auto-confirmed uninstall runs in a row
InitUninstall == Init /\ args = {"--auto-override", "--uninstall"}

NextUninstall ==
    \/ Main
    \/ Uninstall
    \/ \E fault \in BOOLEAN :
          \E gone \in (IF fault /\ pc = "remove" /\ idx <= Len(items)
                       THEN SUBSET Descendants(fs, FullPath(items[idx]))
                       ELSE {{}}) : RemoveEntry(fault, gone)
    \/ Finally
    \/ NextRun({"--auto-override", "--uninstall"})

SpecUninstall == InitUninstall /\ [][NextUninstall]_vars

\* The same runs on a destination root that also holds what the tool does
\* not manage: a settings file and an agents/ directory of the operator.
OutsidePaths == { <<"settings.json">>, <<"agents">>, <<"agents", "planner.md">> }

WideTrees ==
    { [p \in DestPaths \cup OutsidePaths |->
          IF p \in DestPaths THEN t[p]
          ELSE IF t[Root] = ABSENT THEN ABSENT
          ELSE IF p = <<"agents">> THEN DIRNODE ELSE OWN] : t \in DestTrees }

InitFrame ==
    /\ src \in SrcTrees
    /\ fs \in WideTrees
    /\ args \in SUBSET Flags
    /\ AUTO_OVERRIDE = ("--auto-override" \in args)
    /\ UNINSTALL = ("--uninstall" \in args)
    /\ isTTY = TRUE
    /\ pc = "main"
    /\ rlOpen = FALSE
    /\ available = << >>
    /\ items = << >>
    /\ answer = "none"
    /\ idx = 0
    /\ removed = 0
    /\ out = << >>
    /\ errOut = "none"
    /\ err = "none"
    /\ exitCode = -1
    /\ outcome = "running"
    /\ before = fs
    /\ wrote = << >>
    /\ runNo = 1
    /\ history = << >>
    /\ callTarget = Root
    /\ ret = FALSE
    /\ cliArgs = {}
    /\ cliCode = -1

SpecFrame == InitFrame /\ [][Next]_vars

\* removeRecursive(target) called on its own, on any tree and any path of it
InitRemove ==
    /\ src = [p \in SrcPaths |-> IF p = Root THEN DIRNODE ELSE ABSENT]
    /\ fs \in DestTrees
    /\ callTarget \in DestPaths
    /\ ret = FALSE
    /\ cliArgs = {}
    /\ cliCode = -1
    /\ args = {"--uninstall"}
    /\ AUTO_OVERRIDE = FALSE
    /\ UNINSTALL = TRUE
    /\ isTTY = TRUE
    /\ pc = "call"
    /\ rlOpen = FALSE
    /\ available = << >>
    /\ items = << >>
    /\ answer = "none"
    /\ idx = 0
    /\ removed = 0
    /\ out = << >>
    /\ errOut = "none"
    /\ err = "none"
    /\ exitCode = -1
    /\ outcome = "running"
    /\ before = fs
    /\ wrote = << >>
    /\ runNo = 1
    /\ history = << >>

\* the call returns or throws; a failing rm may have removed part of the tree
CallRemove(fault, gone) ==
    /\ pc = "call"
    /\ LET r == removeRecursive(fs, callTarget, fault, gone)
       IN  /\ fs' = r.fs
           /\ err' = r.err
           /\ ret' = r.ret
    /\ pc' = "returned"
    /\ UNCHANGED <<cliArgs, cliCode, src, UNINSTALL, AUTO_OVERRIDE, args, isTTY, rlOpen, available,
                   items, answer, idx, removed, out, errOut, exitCode, outcome,
                   before, wrote, runNo, history, callTarget>>

NextRemove ==
    \E fault \in BOOLEAN :
       \E gone \in (IF fault THEN SUBSET Descendants(fs, callTarget) ELSE {{}}) :
          CallRemove(fault, gone)

SpecRemove == InitRemove /\ [][NextRemove]_vars

\* copyRecursive(source, dest) called on its own: any source tree, any
\* destination tree, and any relative path below the two roots
InitCopy ==
    /\ src \in SrcTrees
    /\ fs \in DestTrees
    /\ callTarget \in SrcPaths \ {Root}
    /\ ret = FALSE
    /\ cliArgs = {}
    /\ cliCode = -1
    /\ args = {"--auto-override"}
    /\ AUTO_OVERRIDE = TRUE
    /\ UNINSTALL = FALSE
    /\ isTTY = TRUE
    /\ pc = "callCopy"
    /\ rlOpen = FALSE
    /\ available = << >>
    /\ items = << >>
    /\ answer = "none"
    /\ idx = 0
    /\ removed = 0
    /\ out = << >>
    /\ errOut = "none"
    /\ err = "none"
    /\ exitCode = -1
    /\ outcome = "running"
    /\ before = fs
    /\ wrote = << >>
    /\ runNo = 1
    /\ history = << >>

\* the call returns or throws
CallCopy(k, rev) ==
    /\ pc = "callCopy"
    /\ LET r == copyRecursive(src, callTarget, callTarget,
                              [fs |-> fs, err |-> "none", n |-> 0,
                               wrote |-> << >>], k, rev)
       IN  /\ fs' = r.fs
           /\ err' = r.err
           /\ wrote' = r.wrote
           /\ idx' = k
    /\ pc' = "copied"
    /\ UNCHANGED <<cliArgs, cliCode, src, UNINSTALL, AUTO_OVERRIDE, args, isTTY, rlOpen, available,
                   items, answer, removed, out, errOut, exitCode, outcome,
                   before, runNo, history, callTarget, ret>>

NextCopy == \E k \in 0..MaxFaultAt, rev \in BOOLEAN : CallCopy(k, rev)

SpecCopy == InitCopy /\ [][NextCopy]_vars

TypeOK ==
    /\ src \in SrcTrees
    /\ WellFormed(fs)
    /\ exitCode \in {-1, 0, 1}
    /\ outcome \in {"running", "completed", "cancelled", "nothing", "failed",
                    "abandoned"}

(***************************************************************************)
(* Properties                                                              *)
(***************************************************************************)
Range(q) == { q[i] : i \in 1..Len(q) }

Prompted == <<"prompt">> \in Range(out)

ManifestPaths == { FullPath(Manifest[i]) : i \in 1..Len(Manifest) }

UnderManifest(p) == \E m \in ManifestPaths : IsPrefix(m, p)

\* C1: an install run without --auto-override whose stdin is not a terminal
\* never issues the confirmation prompt (it behaves as auto-confirm).
C1_NonTtyInstallNeverPrompts ==
    (~UNINSTALL /\ ~AUTO_OVERRIDE /\ ~isTTY) => (~Prompted /\ pc # "installPrompt")

\* C2: once the operator has answered install's prompt with anything other
\* than y/Y, the run has ended as cancelled with exit code 0 and the whole
\* destination tree, the root included, is what it was before the run.
C2_CancelInstallNoOp ==
    (~UNINSTALL /\ answer \notin {"none", "y", "Y"})
        => /\ fs = before
           /\ wrote = << >>
           /\ pc = "exited"
           /\ outcome = "cancelled"
           /\ exitCode = 0

C2_Witness ==
    /\ ~UNINSTALL
    /\ Prompted
    /\ answer = ""
    /\ pc = "exited"
    /\ \E p \in DestPaths : IsFile(before[p])

\* C3: every path an uninstall run deletes is a manifest entry path or lies
\* beneath one, nothing is created or modified, and a file directly in a
\* group directory whose name is not a manifest item keeps its content.
C3_UninstallExactness ==
    UNINSTALL =>
        \A p \in DestPaths :
            /\ fs[p] # before[p] => (fs[p] = ABSENT /\ UnderManifest(p))
            /\ (Len(p) = 2 /\ IsFile(before[p]) /\ p \notin ManifestPaths)
                   => fs[p] = before[p]

C3_Witness ==
    /\ UNINSTALL
    /\ pc = "exited"
    /\ outcome = "completed"
    /\ before[<<"commands", CmdUpdate>>] = PKG
    /\ fs[<<"commands", CmdUpdate>>] = ABSENT
    /\ before[<<"commands", CmdHelp>>] = OWN
    /\ fs[<<"commands", CmdHelp>>] = OWN

\* the exception pending or reported is one injected into a mutating fs call
InjectedFault == err = "EACCES"

\* nothing exists below the destination root (which may itself be absent)
EmptyDest(f) == \A p \in DestPaths \ {Root} : f[p] = ABSENT

\* the current run is the second, has ended, and followed a completed install
SecondRunEnded ==
    /\ runNo = 2
    /\ pc = "exited"
    /\ ~history[1].uninstall
    /\ history[1].outcome = "completed"

\* C4: after an auto-confirmed install followed by an auto-confirmed
\* uninstall, the destination holds the same files and directories with the
\* same contents as before the install, the root's own existence aside.
\* Stated for the entries of the group directories (the paths two or more
\* levels below the root), so that a group directory left behind empty is
\* not what refutes it.
C4_RoundTrip ==
    (SecondRunEnded /\ UNINSTALL /\ outcome \in {"completed", "nothing"})
        => \A p \in DestPaths : Len(p) >= 2 => fs[p] = history[1].before[p]

\* C5: an install run never deletes a destination path (a directory stays a
\* directory, a file stays a file) and never changes the content of a
\* destination file whose relative path is not a file of the source tree.
C5_MergeNotWipe ==
    ~UNINSTALL =>
        \A p \in DestPaths :
            /\ before[p] = DIRNODE => fs[p] = DIRNODE
            /\ IsFile(before[p]) => IsFile(fs[p])
            /\ (IsFile(before[p]) /\ ~IsFile(Node(src, p))) => fs[p] = before[p]

\* a completed install over a destination holding an operator file inside the
\* skill directory and a file that the source no longer ships
C5_Witness ==
    /\ ~UNINSTALL
    /\ pc = "exited"
    /\ outcome = "completed"
    /\ fs # before
    /\ src[<<"skills", SkillDir>>] = DIRNODE
    /\ before[<<"skills", SkillDir, NotesMd>>] = OWN
    /\ fs[<<"skills", SkillDir, NotesMd>>] = OWN
    /\ src[<<"commands">>] = DIRNODE
    /\ src[<<"commands", CmdHelp>>] = ABSENT
    /\ before[<<"commands", CmdHelp>>] = PKG

\* C6: with the source unchanged, a second auto-confirmed install after a
\* first one that started from an empty or absent destination completes
\* (unless a filesystem fault is injected) and leaves exactly the tree the
\* first one left.
C6_InstallIdempotent ==
    (SecondRunEnded /\ ~UNINSTALL /\ EmptyDest(history[1].before) /\ ~InjectedFault)
        => /\ outcome = "completed"
           /\ fs = history[1].after

C6_Witness ==
    /\ SecondRunEnded
    /\ ~UNINSTALL
    /\ history[1].before[Root] = ABSENT
    /\ outcome = "completed"
    /\ fs[<<"commands", CmdUpdate>>] = PKG
    /\ fs[<<"skills", SkillDir, SkillMd>>] = PKG

\* C7: after a confirmed uninstall every destination file that this
\* package's install did not write (an operator-authored file) still exists
\* with unchanged content.
C7_UninstallKeepsOperatorFiles ==
    (UNINSTALL /\ pc = "exited" /\ outcome = "completed")
        => \A p \in DestPaths : before[p] = OWN => fs[p] = OWN

\* the subtree at or below path p is what it was when the run started
Untouched(p) == \A q \in DestPaths : IsPrefix(p, q) => fs[q] = before[q]

Reported == \E m \in Range(out) : m[1] = "done"

\* C8 (as claimed): a failing removal does not abort the loop, so when a
\* confirmed uninstall has ended, every entry of the existing-list has been
\* attempted: the loop went past it, or it is the entry whose removal failed.
C8_RemovalFailureContinues ==
    (UNINSTALL /\ pc = "exited" /\ idx >= 1)
        => \A j \in 1..Len(items) : j < idx \/ (j = idx /\ err # "none")

\* C8 (amended): uninstall is fail-fast.  The removal loop moves past an
\* entry only once that entry is gone; when a removal fails, no later entry
\* of the list is touched, no final report is printed, and the process
\* writes the error and exits with status 1.
C8_RemovalFailFast ==
    UNINSTALL =>
        /\ \A j \in 1..Len(items) :
              (pc \in {"remove", "finally", "exited"} /\ j < idx)
                  => ~existsSync(fs, FullPath(items[j]))
        /\ err # "none" =>
              /\ idx \in 1..Len(items)
              /\ \A j \in (idx + 1)..Len(items) : Untouched(FullPath(items[j]))
              /\ ~Reported
              /\ pc \in {"finally", "exited"}
              /\ pc = "exited" => (exitCode = 1 /\ errOut = err)

\* the removal of the first of two existing entries failed
C8_Witness ==
    /\ UNINSTALL
    /\ pc = "exited"
    /\ err # "none"
    /\ Len(items) = 2
    /\ idx = 1
    /\ existsSync(fs, FullPath(items[2]))

\* C9: when a copy raises an error, no later group is copied, everything
\* written before the failure (earlier groups, earlier files of the failing
\* group) is still on disk, no completion message is printed, and the
\* process writes the error and exits with status 1.
C9_InstallFailFastNoRollback ==
    (~UNINSTALL /\ err # "none") =>
        /\ pc \in {"finally", "exited"}
        /\ \A j \in (idx + 1)..Len(available) : Untouched(<<available[j]>>)
        /\ \A i \in 1..Len(wrote) : fs[wrote[i]] = src[wrote[i]]
        /\ \A j \in 1..(idx - 1) :
              \A p \in SrcPaths :
                 (IsPrefix(<<available[j]>>, p) /\ src[p] # ABSENT) => fs[p] = src[p]
        /\ <<"all set">> \notin Range(out)
        /\ pc = "exited" => (exitCode = 1 /\ errOut = err /\ outcome = "failed")

\* the copy of the first of two groups failed after one of its files was written
C9_Witness ==
    /\ ~UNINSTALL
    /\ pc = "exited"
    /\ err # "none"
    /\ Len(available) = 2
    /\ idx = 1
    /\ \E i \in 1..Len(wrote) : Len(wrote[i]) = 2 /\ IsFile(fs[wrote[i]])
    /\ src[<<"skills", SkillDir, SkillMd>>] = PKG
    /\ fs[<<"skills">>] = ABSENT

\* C10: a run that completed, found nothing to do or was cancelled exits with
\* code 0; a run exits with a non-zero code (1) exactly when a filesystem
\* error surfaced; there is no other exit code.
C10_ExitCodes ==
    /\ pc # "exited" => exitCode = -1
    /\ pc = "exited" =>
          /\ exitCode \in {0, 1}
          /\ outcome \in {"completed", "nothing", "cancelled"} => exitCode = 0
          /\ (exitCode # 0) <=> (err # "none")
          /\ (outcome = "failed") <=> (err # "none")

\* an uninstall whose removal failed has exited with status 1
C10_Witness ==
    /\ pc = "exited"
    /\ UNINSTALL
    /\ err = "EACCES"
    /\ exitCode = 1
    /\ removed = 1

\* C11: with --auto-override no confirmation prompt is issued and no answer
\* is read in either flow: an install with groups to copy goes through the
\* whole copy loop, an uninstall with entries to remove goes through the
\* whole removal loop, and only a filesystem error keeps either from
\* completing.
C11_AutoOverrideNeverPrompts ==
    AUTO_OVERRIDE =>
        /\ ~Prompted
        /\ answer = "none"
        /\ pc \notin {"installPrompt", "uninstallPrompt"}
        /\ outcome \notin {"cancelled", "abandoned"}
        /\ (pc = "exited" /\ err = "none" /\ ~UNINSTALL /\ available # << >>)
              => (outcome = "completed" /\ idx = Len(available) + 1)
        /\ (pc = "exited" /\ err = "none" /\ UNINSTALL /\ items # << >>)
              => (outcome = "completed" /\ idx = Len(items) + 1
                  /\ removed = Len(items))

\* an auto-confirmed uninstall removed both manifest entries it found
C11_Witness ==
    /\ AUTO_OVERRIDE
    /\ UNINSTALL
    /\ pc = "exited"
    /\ outcome = "completed"
    /\ removed = 2
    /\ fs # before

\* a destination file that the copy would overwrite: a regular file at the
\* relative path of a regular file of the source tree
WouldOverwrite(f) == { p \in SrcPaths : IsFile(src[p]) /\ IsFile(f[p]) }

\* C12: an install run without auto-confirm issues the confirmation prompt
\* only when at least one destination file would actually be overwritten by
\* the copy.  Stated for destinations whose group directories hold nothing
\* but files with the package's bytes (what an earlier install left there).
C12_PromptOnlyWhenOverwriting ==
    (/\ ~UNINSTALL /\ ~AUTO_OVERRIDE /\ Prompted
     /\ \A p \in DestPaths : Len(p) >= 2 => before[p] \in {ABSENT, PKG})
        => WouldOverwrite(before) # {}

\* the pre-existing destination files that the current run has overwritten
Overwritten == { p \in Range(wrote) : IsFile(before[p]) }

\* the path is a listed entry's path or lies beneath one
Listed(p) == \E i \in 1..Len(items) : IsPrefix(FullPath(items[i]), p)

\* C13: in an install run without auto-confirm, every pre-existing
\* destination file that the copy overwrites is covered by the overwrite
\* list shown to the operator, and is overwritten only after the operator
\* answered y, whether or not its path is named in the manifest.
C13_AsksBeforeOverwriting ==
    (~UNINSTALL /\ ~AUTO_OVERRIDE)
        => \A p \in Overwritten : Listed(p) /\ answer \in {"y", "Y"}

EmptySrcDir(p) ==
    /\ src[p] = DIRNODE
    /\ \A q \in SrcPaths : Parent(q) = p /\ q # p => src[q] = ABSENT

C15_UninstallNothingToRemove ==
    (UNINSTALL /\ \A m \in ManifestPaths : Node(before, m) = ABSENT)
        => /\ fs = before
           /\ wrote = << >>
           /\ ~Prompted
           /\ pc \in {"main", "uninstall", "finally", "exited"}
           /\ pc \in {"finally", "exited"}
                => /\ outcome = "nothing"
                   /\ <<"already clean">> \in Range(out)
                   /\ err = "none"
           /\ pc = "exited" => exitCode = 0

\* uninstall ended on a destination root that does not exist
C15_Witness ==
    /\ UNINSTALL
    /\ ~AUTO_OVERRIDE
    /\ before[Root] = ABSENT
    /\ fs[Root] = ABSENT
    /\ pc = "exited"
    /\ outcome = "nothing"
    /\ exitCode = 0

\* uninstall ended with nothing to remove beside an operator's own file
C15_WitnessOperatorFile ==
    /\ UNINSTALL
    /\ before[<<"commands", CmdHelp>>] = OWN
    /\ pc = "exited"
    /\ outcome = "nothing"

\* C16: in an uninstall run without auto-confirm that found manifest entries
\* at the destination, an answer other than "y" or "Y" removes nothing: the
\* filesystem, every manifest-listed file included, is exactly as before, and
\* the run ends with exit status 0.
C16_DeclineUninstallNoOp ==
    (UNINSTALL /\ answer \notin {"none", "y", "Y"})
        => /\ ~AUTO_OVERRIDE
           /\ items # << >>
           /\ fs = before
           /\ \A m \in ManifestPaths : Node(fs, m) = Node(before, m)
           /\ removed = 0
           /\ pc \in {"finally", "exited"}
           /\ outcome = "cancelled"
           /\ err = "none"
           /\ pc = "exited" => exitCode = 0

\* "n" was typed at the uninstall prompt and the installed file is still there
C16_Witness ==
    /\ UNINSTALL
    /\ answer = "n"
    /\ pc = "exited"
    /\ exitCode = 0
    /\ before[<<"commands", CmdUpdate>>] = PKG
    /\ fs[<<"commands", CmdUpdate>>] = PKG

\* the "Done! Removed ... item(s)." line of a finished uninstall
Report == out[Len(out)]

\* the entries marked as removed in the output
Marks == { i \in 1..Len(out) : out[i][1] = "mark" }

\* C17 as stated: a confirmed uninstall ends by reporting the number of
\* entries removed out of the number of entries attempted (the length of the
\* existing-list).
C17_ReportRemovedOfAttempted ==
    (UNINSTALL /\ outcome = "completed")
        => Report = <<"done", removed, Len(items)>>

\* C17 amended: a confirmed uninstall that ran to its end reports one number,
\* the count of entries for which the remover returned true (one mark each);
\* the number of entries attempted is not part of the report.  With no error
\* that count is the length of the existing-list and every listed entry is
\* gone.
C17_ReportRemovedCount ==
    (UNINSTALL /\ outcome = "completed")
        => /\ Report = <<"done", removed>>
           /\ removed = Cardinality(Marks)
           /\ removed = Len(items)
           /\ removed >= 1
           /\ \A i \in 1..Len(items) : Node(fs, FullPath(items[i])) = ABSENT

\* one existing entry, removed and reported as 1, beside an untouched file
C17_Witness ==
    /\ UNINSTALL
    /\ pc = "exited"
    /\ outcome = "completed"
    /\ Len(items) = 1
    /\ Report = <<"done", 1>>
    /\ before[<<"commands", CmdUpdate>>] = PKG
    /\ fs[<<"commands", CmdUpdate>>] = ABSENT
    /\ before[<<"commands", CmdHelp>>] = OWN
    /\ fs[<<"commands", CmdHelp>>] = OWN

\* the run went past its confirmation
Proceeded ==
    /\ pc \in {"ensureRoot", "copy", "remove", "finally", "exited"}
    /\ outcome # "cancelled"
    /\ <<"cancelled">> \notin Range(out)
    /\ <<"keeping">> \notin Range(out)
    /\ UNINSTALL => <<"removing">> \in Range(out)
    /\ (~UNINSTALL /\ pc = "copy") => <<"installing">> \in Range(out)

\* C18: in the install and in the uninstall flow the line read at the prompt
\* approves exactly when it is "y" or "Y"; every other line (the empty line,
\* "yes", " y", "n") declines, and a declined run changes nothing.
C18_AffirmativeIffY ==
    answer # "none"
        => /\ Prompted
           /\ answer \in {"y", "Y"} => Proceeded
           /\ answer \notin {"y", "Y"}
                => /\ outcome = "cancelled"
                   /\ fs = before
                   /\ pc \in {"finally", "exited"}
                   /\ ~Proceeded

\* an install approved with a capital Y ran to its end
C18_Witness ==
    /\ ~UNINSTALL
    /\ answer = "Y"
    /\ pc = "exited"
    /\ outcome = "completed"
    /\ fs # before

\* the other cases of C18: " y" declines an uninstall, "Y" approves one,
\* "yes" and the empty line decline an install
C18_WitnessSpaceY == UNINSTALL /\ answer = " y" /\ pc = "exited"
C18_WitnessUninstallY == UNINSTALL /\ answer = "Y" /\ outcome = "completed"
C18_WitnessYes == ~UNINSTALL /\ answer = "yes" /\ pc = "exited"
C18_WitnessEmpty == ~UNINSTALL /\ answer = "" /\ pc = "exited"

\* the configured groups that have a source directory
WithSource == { d \in Range(CUSTOMIZATION_DIRS) : src[<<d>>] = DIRNODE }

\* C19: install works on exactly the configured groups whose source
\* directory exists.  A group without one is never copied: nothing below it
\* at the destination is written and the run does not fail on it.  A run
\* that was approved and ended without error has copied every group with a
\* source directory.  With no group at all the run says there is nothing to
\* install, changes nothing, asks nothing and exits with status 0.
C19_EnumeratesGroupsWithSource ==
    ~UNINSTALL
        => /\ pc \notin {"main", "install"} => Range(available) = WithSource
           /\ \A d \in Range(CUSTOMIZATION_DIRS) \ WithSource :
                /\ <<"mark", d>> \notin Range(out)
                /\ \A p \in DestPaths : IsPrefix(<<d>>, p) => fs[p] = before[p]
           /\ \A i \in 1..Len(wrote) :
                wrote[i] = Root \/ wrote[i][1] \in WithSource
           /\ (pc = "exited" /\ outcome = "completed")
                => \A d \in WithSource :
                     /\ <<"mark", d>> \in Range(out)
                     /\ \A p \in SrcPaths :
                          (IsPrefix(<<d>>, p) /\ IsFile(src[p])) => fs[p] = src[p]
           /\ (WithSource = {} /\ pc \notin {"main", "install"})
                => /\ pc = "exited"
                   /\ outcome = "nothing"
                   /\ <<"nothing to install">> \in Range(out)
                   /\ fs = before
                   /\ ~Prompted
                   /\ err = "none"
                   /\ exitCode = 0

\* a package with skills/ only installed beside an operator's commands/
C19_Witness ==
    /\ ~UNINSTALL
    /\ WithSource = {"skills"}
    /\ pc = "exited"
    /\ outcome = "completed"
    /\ before[<<"commands", CmdHelp>>] = OWN
    /\ fs[<<"commands", CmdHelp>>] = OWN
    /\ before[<<"skills">>] = ABSENT
    /\ fs[<<"skills", SkillDir, SkillMd>>] = PKG

\* a package without any group: nothing to install
C19_WitnessNothing ==
    /\ ~UNINSTALL
    /\ WithSource = {}
    /\ pc = "exited"
    /\ before[<<"commands", CmdUpdate>>] = PKG

\* the paths at or below the target
InTarget(p) == IsPrefix(callTarget, p)

\* C20: removeRecursive(target) on a path that does not exist returns false,
\* throws nothing and changes nothing; on a regular file it removes that file
\* alone and returns true; on a directory it removes the directory with
\* everything in it and returns true; whatever happens, a failing call
\* included, no path outside the target changes.
C20_TreeRemoverContract ==
    pc = "returned"
        => /\ \A p \in DestPaths : ~InTarget(p) => fs[p] = before[p]
           /\ before[callTarget] = ABSENT
                => /\ ret = FALSE
                   /\ err = "none"
                   /\ fs = before
           /\ (IsFile(before[callTarget]) /\ err = "none")
                => /\ ret = TRUE
                   /\ fs = [before EXCEPT ![callTarget] = ABSENT]
           /\ (before[callTarget] = DIRNODE /\ err = "none")
                => /\ ret = TRUE
                   /\ \A p \in DestPaths : InTarget(p) => fs[p] = ABSENT
           /\ err # "none" => ret = FALSE

\* a skill directory holding two files was removed, the commands kept
C20_Witness ==
    /\ pc = "returned"
    /\ callTarget = <<"skills", SkillDir>>
    /\ before[<<"skills", SkillDir, SkillMd>>] = PKG
    /\ before[<<"skills", SkillDir, NotesMd>>] = OWN
    /\ before[<<"commands", CmdUpdate>>] = PKG
    /\ ret = TRUE
    /\ fs[callTarget] = ABSENT
    /\ fs[<<"skills", SkillDir, NotesMd>>] = ABSENT
    /\ fs[<<"commands", CmdUpdate>>] = PKG

\* the other cases of C20: a path that does not exist, and a regular file
C20_WitnessAbsent == pc = "returned" /\ before[callTarget] = ABSENT /\ ret = FALSE
C20_WitnessFile == pc = "returned" /\ IsFile(before[callTarget]) /\ ret = TRUE

\* position of an entry in the manifest
ManifestPos(e) == CHOOSE i \in 1..Len(Manifest) : Manifest[i] = e

\* the detector has run in this run (install skips it when nothing is shipped)
Detected ==
    /\ pc \notin {"main", "install", "uninstall"}
    /\ UNINSTALL \/ WithSource # {}

\* C21: on every destination state the detector returns the manifest entries
\* (group, item) whose path destRoot/group/item exists, each once, in
\* manifest order, and changes nothing; install and uninstall both work on
\* that list.
C21_DetectorContract ==
    /\ LET r == getItemsToOverwrite(fs)
       IN  /\ Range(r) = { e \in Range(Manifest) :
                             Node(fs, <<e[1], e[2]>>) # ABSENT }
           /\ \A i, j \in 1..Len(r) :
                i < j => ManifestPos(r[i]) < ManifestPos(r[j])
    /\ Detected => items = getItemsToOverwrite(before)
    /\ pc \in {"installPrompt", "uninstallPrompt", "ensureRoot"} => fs = before

\* both manifest entries of the universe found by an install, in order
C21_Witness ==
    /\ ~UNINSTALL
    /\ pc = "installPrompt"
    /\ items = << <<"commands", CmdUpdate>>, <<"skills", SkillDir>> >>
    /\ before[<<"commands", CmdHelp>>] = PKG
    /\ before[<<"skills", SkillDir, NotesMd>>] = OWN

\* the same list found by an uninstall
C21_WitnessUninstall ==
    /\ UNINSTALL
    /\ pc = "uninstallPrompt"
    /\ items = << <<"commands", CmdUpdate>>, <<"skills", SkillDir>> >>

\* the source paths the copy of callTarget would visit
Visited == { p \in SrcPaths : IsPrefix(callTarget, p) /\ src[p] # ABSENT }

\* the destination holds a file where the source has a directory
FileWhereDir == { p \in Visited : src[p] = DIRNODE /\ IsFile(before[p]) }

\* the destination holds a directory where the source has a file
DirWhereFile == { p \in Visited : IsFile(src[p]) /\ before[p] = DIRNODE }

\* a component of the destination path is a regular file
FileOnTheWay ==
    \E q \in Prefixes(callTarget) \ {callTarget} : IsFile(before[q])

\* C22 as stated: copy(source, dest) ends with an error when the source does
\* not exist, and then changes nothing at the destination, and when the
\* destination or a component of it exists with a conflicting type (a file
\* where the source has a directory, a directory where it has a file).
C22_CopyErrors ==
    pc = "copied"
        => /\ src[callTarget] = ABSENT => (err # "none" /\ fs = before)
           /\ (src[callTarget] # ABSENT
               /\ (FileWhereDir # {} \/ DirWhereFile # {} \/ FileOnTheWay))
                => err # "none"

\* C22 amended: as C22, except that a destination file at the path of an
\* EMPTY source directory is no error: the copy returns normally and leaves
\* the file as it is.  Nothing changes but the paths written and the
\* directories created on the way to them.
C22_CopyErrorsNonEmpty ==
    pc = "copied"
        => /\ src[callTarget] = ABSENT
                => (err = "ENOENT" /\ fs = before /\ wrote = << >>)
           /\ (src[callTarget] # ABSENT
               /\ \/ \E p \in FileWhereDir : ~EmptySrcDir(p)
                  \/ DirWhereFile # {}
                  \/ FileOnTheWay)
                => err # "none"
           /\ (EmptySrcDir(callTarget) /\ IsFile(before[callTarget]))
                => (err = "none" /\ fs = before)
           /\ \A p \in DestPaths :
                fs[p] # before[p] => \E w \in Range(wrote) : IsPrefix(p, w)

\* a file copied onto a directory: EISDIR, nothing changed
C22_Witness ==
    /\ pc = "copied"
    /\ callTarget = <<"commands">>
    /\ src[<<"commands", CmdUpdate>>] = PKG
    /\ before[<<"commands", CmdUpdate>>] = DIRNODE
    /\ idx = 0
    /\ err = "EISDIR"
    /\ fs[<<"commands", CmdUpdate>>] = DIRNODE

\* the other cases of C22
C22_WitnessNoSource == pc = "copied" /\ src[callTarget] = ABSENT /\ idx = 0
C22_WitnessFileWhereDir ==
    /\ pc = "copied"
    /\ idx = 0
    /\ callTarget = <<"skills">>
    /\ before[<<"skills", SkillDir>>] = OWN
    /\ err = "ENOTDIR"

\* the confirmation decision of the run has been taken
Decided ==
    \/ AUTO_OVERRIDE
    \/ answer \in {"y", "Y"}
    \/ ~UNINSTALL /\ Detected /\ items = << >>

\* every entry of the detector's list has been printed
ListPrinted ==
    \A i \in 1..Len(items) : <<"item", items[i][1], items[i][2]>> \in Range(out)

\* C23: in both flows nothing on the filesystem changes before the decision
\* is taken (an approving answer, auto-confirm, or an empty conflict list in
\* install) and before the detector's list has been printed; install has the
\* destination root in place before the first group copy starts, and a root
\* it had to create is the first thing it writes.
C23_MutationOrdering ==
    /\ (fs # before \/ wrote # << >> \/ pc \in {"copy", "remove"})
          => (Decided /\ ListPrinted)
    /\ pc \in {"main", "install", "uninstall", "installPrompt",
               "uninstallPrompt", "ensureRoot"} => fs = before
    /\ pc = "copy" => fs[Root] = DIRNODE
    /\ (~UNINSTALL /\ wrote # << >> /\ before[Root] = ABSENT) => wrote[1] = Root

\* an install approved at the prompt is copying, its list printed before
C23_Witness ==
    /\ ~UNINSTALL
    /\ ~AUTO_OVERRIDE
    /\ answer = "y"
    /\ Len(items) = 2
    /\ pc = "copy"
    /\ idx = 2
    /\ fs # before

\* the other cases of C23: a root created first, an uninstall removing
C23_WitnessRoot ==
    ~UNINSTALL /\ before[Root] = ABSENT /\ Len(wrote) >= 2 /\ wrote[1] = Root
C23_WitnessUninstall ==
    UNINSTALL /\ answer = "y" /\ pc = "remove" /\ fs # before

\* the copy of group d is complete at the destination
GroupCopied(d) ==
    \A p \in SrcPaths :
       (IsPrefix(<<d>>, p) /\ src[p] # ABSENT)
          => (IF IsFile(src[p]) THEN fs[p] = src[p] ELSE fs[p] # ABSENT)

\* C24: a group (install) or an entry (uninstall) is printed with a success
\* mark only once its copy or its removal is complete, in failing runs too:
\* every marked group is copied, every marked entry is gone.
C24_MarkOnlyAfterCompletion ==
    /\ ~UNINSTALL
          => \A d \in Range(CUSTOMIZATION_DIRS) :
                <<"mark", d>> \in Range(out) => GroupCopied(d)
    /\ UNINSTALL
          => \A i \in 1..Len(items) :
                <<"mark", items[i][1], items[i][2]>> \in Range(out)
                   => Node(fs, FullPath(items[i])) = ABSENT

\* the destination paths outside the configured group directories
Unmanaged ==
    { p \in DOMAIN fs : p # Root /\ p[1] \notin Range(CUSTOMIZATION_DIRS) }

\* what a run may have done to the destination so far
FrameOfRun ==
    /\ \A p \in Unmanaged : fs[p] = before[p]
    /\ fs[Root] # before[Root]
          => (~UNINSTALL /\ before[Root] = ABSENT /\ fs[Root] = DIRNODE)
    /\ UNINSTALL
          => /\ wrote = << >>
             /\ \A p \in DOMAIN fs : before[p] = ABSENT => fs[p] = ABSENT

\* C25: no step of an install or uninstall run changes anything below the
\* source root; below the destination root nothing outside commands/ and
\* skills/ is ever touched, except that install creates a missing root; and
\* uninstall never creates a file or a directory.
C25_Frame == [](FrameOfRun) /\ [][src' = src]_vars

\* an install that changed the destination ended beside the operator's
\* settings and agents
C25_Witness ==
    /\ ~UNINSTALL
    /\ pc = "exited"
    /\ outcome = "completed"
    /\ fs # before
    /\ Node(fs, <<"settings.json">>) = OWN
    /\ Node(fs, <<"agents", "planner.md">>) = OWN

\* the other cases of C25: an uninstall that removed a skill directory, and
\* an install that created the root
C25_WitnessUninstall ==
    /\ UNINSTALL
    /\ outcome = "completed"
    /\ before[<<"skills", SkillDir>>] = DIRNODE
    /\ fs[<<"skills", SkillDir>>] = ABSENT
    /\ Node(fs, <<"settings.json">>) = OWN
C25_WitnessRoot ==
    ~UNINSTALL /\ before[Root] = ABSENT /\ outcome = "completed"

\* C26: after an uninstall that was confirmed (or auto-confirmed) and ended
\* without error no manifest path destRoot/<group>/<item> exists and the group
\* directories are as they were; an uninstall run right after it finds
\* nothing to remove and changes nothing.
C26_UninstallPostcondition ==
    /\ (UNINSTALL /\ outcome = "completed")
          => /\ \A m \in ManifestPaths : Node(fs, m) = ABSENT
             /\ getItemsToOverwrite(fs) = << >>
             /\ \A d \in Range(CUSTOMIZATION_DIRS) : fs[<<d>>] = before[<<d>>]
    /\ (UNINSTALL /\ runNo = 2 /\ pc \notin {"main", "uninstall"})
          => /\ history[1].outcome = "completed"
             /\ items = << >>
             /\ outcome = "nothing"
             /\ <<"already clean">> \in Range(out)
             /\ fs = before

\* a second uninstall found nothing after the first removed a command and a
\* skill directory; commands/ and skills/ are still there
C26_Witness ==
    /\ UNINSTALL
    /\ runNo = 2
    /\ pc = "exited"
    /\ outcome = "nothing"
    /\ history[1].before[<<"commands", CmdUpdate>>] = PKG
    /\ history[1].before[<<"skills", SkillDir, SkillMd>>] = PKG
    /\ fs[<<"commands">>] = DIRNODE
    /\ fs[<<"skills">>] = DIRNODE
    /\ fs[<<"skills", SkillDir>>] = ABSENT

\* the run is waiting for the operator's line
AtPrompt == pc \in {"installPrompt", "uninstallPrompt"}

\* C27 as stated: every run eventually ends, in one of the outcomes
\* completed, cancelled, nothing-to-do or failed and with the line-input
\* interface closed, also when the input ends without a line at the prompt.
C27_Termination ==
    /\ <>(pc = "exited")
    /\ [](pc = "exited"
            => /\ outcome \in {"completed", "cancelled", "nothing", "failed"}
               /\ ~rlOpen)

\* C27 amended: every run eventually ends; the only place it waits is the
\* prompt.  It ends completed, cancelled, with nothing to do or failed, or,
\* when the input ends without a line at the prompt, silently abandoned:
\* nothing read, nothing changed, nothing more printed, exit status 0.  The
\* line-input interface is closed at the end except on install's "nothing to
\* install" exit, which leaves the process with it still open.
C27_TerminationOrAbandoned ==
    /\ <>(pc = "exited")
    /\ [](pc \notin {"exited", "installPrompt", "uninstallPrompt"}
            => ENABLED <<Step>>_vars)
    /\ [](pc = "exited"
            => /\ outcome \in {"completed", "cancelled", "nothing", "failed",
                               "abandoned"}
               /\ outcome = "abandoned"
                    => /\ answer = "none"
                       /\ fs = before
                       /\ out[Len(out)] = <<"prompt">>
                       /\ exitCode = 0
               /\ rlOpen => (~UNINSTALL /\ outcome = "nothing")
               /\ (~UNINSTALL /\ outcome = "nothing") => rlOpen)

\* a run that waited at the prompt, got "y" and ran to its end
C27_Witness ==
    /\ pc = "exited"
    /\ answer = "y"
    /\ outcome = "completed"
    /\ ~rlOpen

\* the other ends of C27: input ended at the prompt; nothing to install
C27_WitnessAbandoned == pc = "exited" /\ outcome = "abandoned" /\ UNINSTALL
C27_WitnessNothing == pc = "exited" /\ outcome = "nothing" /\ rlOpen

C28_WitnessFailed == pc = "cliExited" /\ cliCode = 1 /\ cliArgs = {"--uninstall"}
C28_WitnessPrompt == pc = "uninstallPrompt" /\ cliArgs = {"--uninstall"}
====
